---- MODULE Spec2Model ----
(***************************************************************************)
(* Model of the SSE probe of test-sse.py: test_sse_endpoint(url, username) *)
(* and main().  One run issues one streaming GET, reads the response line  *)
(* by line and maps the way the run ends to True/False and to the process  *)
(* exit code.                                                              *)
(*                                                                         *)
(* Time is counted in whole seconds.  The code only compares differences   *)
(* of time.time() readings with 1.0 (<), 5 (>) and the 60 s socket timeout,*)
(* and every real reading compares with these thresholds as one of the     *)
(* integers 0, 1, .., 5, 6, .. does (an elapsed time of 0 stands for any   *)
(* reading below one second).  The clock is taken to be monotonic.         *)
(***************************************************************************)
EXTENDS Integers, Sequences, FiniteSets, TLC

VARIABLES pc, now, idle_since, ticks, get_count,
          status_code, content_type, warned, response_open,
          start_time, event_count, last_event_time,
          delivered, printed,
          exc, raised_at, cause, outcome, success, exit_code

vars == <<pc, now, idle_since, ticks, get_count,
          status_code, content_type, warned, response_open,
          start_time, event_count, last_event_time,
          delivered, printed,
          exc, raised_at, cause, outcome, success, exit_code>>

(* ---------------- program constants ---------------- *)
TIMEOUT == 60
GRACE == 5
QUICK_CLOSE == 1

(* ---------------- bounds of the model ---------------- *)
MaxLines == 2
MaxTicks == 3

(* amounts of time that may pass between two steps of the run *)
Delays == {QUICK_CLOSE, GRACE, TIMEOUT}
(* line contents delivered by the server: the empty line and two events *)
Lines == {"", "a", "b"}
StatusCodes == {200, 404}
ContentTypes == {"text/event-stream", "text/html"}

NoTime == -1
NoCode == -1

(* places where the probe blocks on the network *)
Blocking == {"get", "reject", "loop"}

(* ---------------- exceptions ---------------- *)
(* requests.exceptions classes (and KeyboardInterrupt) with the classes    *)
(* each one is an instance of, as the except clauses test them.            *)
Bases(e) ==
    CASE e = "ConnectTimeout" ->
           {"ConnectTimeout", "ConnectionError", "Timeout", "RequestException", "Exception"}
      [] e = "ReadTimeout" ->
           {"ReadTimeout", "Timeout", "RequestException", "Exception"}
      [] e = "ConnectionError" ->
           {"ConnectionError", "RequestException", "Exception"}
      [] e = "ChunkedEncodingError" ->
           {"ChunkedEncodingError", "RequestException", "Exception"}
      [] e = "KeyboardInterrupt" ->
           {"KeyboardInterrupt", "BaseException"}
      [] OTHER -> {"Exception"}

IsInstance(e, cls) == cls \in Bases(e)

(* except clauses of test_sse_endpoint, in source order *)
Handler_InterruptFails(e) ==
    IF IsInstance(e, "Timeout") THEN [outcome |-> "TIMED_OUT", success |-> TRUE]
    ELSE IF IsInstance(e, "ConnectionError") THEN [outcome |-> "CONN_ERROR", success |-> FALSE]
    ELSE IF IsInstance(e, "KeyboardInterrupt") THEN [outcome |-> "INTERRUPTED", success |-> FALSE]
    ELSE [outcome |-> "UNEXPECTED", success |-> FALSE]

Handler_ConnErrorFirst(e) ==
    IF IsInstance(e, "ConnectionError") THEN [outcome |-> "CONN_ERROR", success |-> FALSE]
    ELSE IF IsInstance(e, "Timeout") THEN [outcome |-> "TIMED_OUT", success |-> TRUE]
    ELSE IF IsInstance(e, "KeyboardInterrupt") THEN [outcome |-> "INTERRUPTED", success |-> TRUE]
    ELSE [outcome |-> "UNEXPECTED", success |-> FALSE]

Handler(e) ==
    IF IsInstance(e, "Timeout") THEN [outcome |-> "TIMED_OUT", success |-> TRUE]
    ELSE IF IsInstance(e, "ConnectionError") THEN [outcome |-> "CONN_ERROR", success |-> FALSE]
    ELSE IF IsInstance(e, "KeyboardInterrupt") THEN [outcome |-> "INTERRUPTED", success |-> TRUE]
    ELSE [outcome |-> "UNEXPECTED", success |-> FALSE]

(* What the expiry of the 60 s socket timeout raises into the try block.   *)
(* requests.get raises ConnectTimeout or ReadTimeout (both are Timeout).   *)
(* While the body is read (response.iter_lines, response.text) requests    *)
(* re-raises urllib3's ReadTimeoutError as requests ConnectionError        *)
(* (Response.iter_content: "except ReadTimeoutError: raise ConnectionError")*)
RaisedOnTimeout(at) ==
    IF at = "get" THEN {"ConnectTimeout", "ReadTimeout"} ELSE {"ConnectionError"}

(* failures other than timeout and interrupt that each call can raise *)
RaisedOnFailure(at) ==
    IF at = "get" THEN {"ConnectionError", "Exception"}
    ELSE {"ConnectionError", "ChunkedEncodingError", "Exception"}

(* exceptions that requests/urllib3 raise after tearing the connection down *)
TransportErrors == {"ConnectTimeout", "ReadTimeout", "ConnectionError", "ChunkedEncodingError"}

(* ---------------- pure parts of the loop and of the return ---------------- *)
(* line 38: only status 200 lets the probe go on to the line loop *)
Accepts_AnyStatus(code) == TRUE

Accepts(code) == code = 200

IsEvent(line) == line # ""

CountAfter_CountAll(count, line) == count + 1

CountAfter(count, line) == IF IsEvent(line) THEN count + 1 ELSE count

(* line 67: the no-events check made after each line *)
NoEventsAbort(elapsed, count) == elapsed > GRACE /\ count = 0

(* lines 78-82: result when the line loop is exhausted *)
ClosedResult_NoQuickRule(elapsed, count) == count > 0

ClosedResult(elapsed, count) ==
    IF elapsed < QUICK_CLOSE THEN FALSE ELSE count > 0

(* main, lines 120-125 *)
ExitCode_Swapped(ok) == IF ok THEN 1 ELSE 0

ExitCode(ok) == IF ok THEN 0 ELSE 1

(* ---------------- initial state ---------------- *)
Init ==
    /\ pc = "start"
    /\ now = 0
    /\ idle_since = 0
    /\ ticks = 0
    /\ get_count = 0
    /\ status_code = NoCode
    /\ content_type = ""
    /\ warned = FALSE
    /\ response_open = FALSE
    /\ start_time = NoTime
    /\ event_count = 0
    /\ last_event_time = NoTime
    /\ delivered = <<>>
    /\ printed = <<>>
    /\ exc = "none"
    /\ raised_at = "none"
    /\ cause = "none"
    /\ outcome = "none"
    /\ success = FALSE
    /\ exit_code = NoCode

(* ---------------- actions ---------------- *)

(* lines 13-29: the GET is issued and the probe waits for the response *)
IssueGet ==
    /\ pc = "start"
    /\ pc' = "get"
    /\ get_count' = get_count + 1
    /\ idle_since' = now
    /\ UNCHANGED <<now, ticks, status_code, content_type, warned, response_open,
                   start_time, event_count, last_event_time, delivered, printed,
                   exc, raised_at, cause, outcome, success, exit_code>>

(* time passes while the probe is blocked; the socket timeout cannot be    *)
(* overrun: it fires when the idle time reaches TIMEOUT                    *)
Tick ==
    /\ pc \in Blocking
    /\ ticks < MaxTicks
    /\ \E d \in Delays :
          /\ (now + d) - idle_since <= TIMEOUT
          /\ now' = now + d
    /\ ticks' = ticks + 1
    /\ UNCHANGED <<pc, idle_since, get_count, status_code, content_type, warned,
                   response_open, start_time, event_count, last_event_time,
                   delivered, printed, exc, raised_at, cause, outcome, success, exit_code>>

(* lines 20-53: requests.get returns a response; status and content type   *)
(* are checked and the loop state is initialised                           *)
GetReturns ==
    /\ pc = "get"
    /\ now - idle_since < TIMEOUT
    /\ \E code \in StatusCodes, ctype \in ContentTypes :
          /\ status_code' = code
          /\ content_type' = ctype
          /\ IF ~Accepts(code)
             THEN /\ pc' = "reject"
                  /\ UNCHANGED <<warned, start_time, last_event_time>>
             ELSE /\ pc' = "loop"
                  /\ warned' = (ctype # "text/event-stream")
                  /\ start_time' = now
                  /\ last_event_time' = now
    /\ response_open' = TRUE
    /\ idle_since' = now
    /\ UNCHANGED <<now, ticks, get_count, event_count, delivered, printed,
                   exc, raised_at, cause, outcome, success, exit_code>>

(* lines 39-41: response.text has read the whole body; return False *)
RejectReturns ==
    /\ pc = "reject"
    /\ now - idle_since < TIMEOUT
    /\ pc' = "returned"
    /\ outcome' = "REJECTED"
    /\ success' = FALSE
    /\ response_open' = FALSE
    /\ cause' = "rejected"
    /\ UNCHANGED <<now, idle_since, ticks, get_count, status_code, content_type,
                   warned, start_time, event_count, last_event_time, delivered,
                   printed, exc, raised_at, exit_code>>

(* lines 56-70: iter_lines yields one line and the loop body runs.         *)
(* The abort at line 70 returns with the response neither read to the end  *)
(* nor closed; whether the runtime has finalised it is not determined.     *)
ReadLine ==
    /\ pc = "loop"
    /\ Len(delivered) < MaxLines
    /\ now - idle_since < TIMEOUT
    /\ \E line \in Lines :
        LET current_time == now
            elapsed == current_time - start_time
            since_last == current_time - last_event_time
            count == CountAfter(event_count, line)
        IN  /\ delivered' = Append(delivered, [line |-> line, at |-> now])
            /\ event_count' = count
            /\ IF IsEvent(line)
               THEN /\ last_event_time' = current_time
                    /\ printed' = Append(printed,
                          [elapsed |-> elapsed, since_last |-> since_last, line |-> line])
               ELSE UNCHANGED <<last_event_time, printed>>
            /\ IF NoEventsAbort(elapsed, count)
               THEN /\ pc' = "returned"
                    /\ outcome' = "NO_EVENTS"
                    /\ success' = FALSE
                    /\ cause' = "no_events"
                    /\ response_open' \in BOOLEAN
               ELSE UNCHANGED <<pc, outcome, success, cause, response_open>>
    /\ idle_since' = now
    /\ UNCHANGED <<now, ticks, get_count, status_code, content_type, warned,
                   start_time, exc, raised_at, exit_code>>

(* lines 72-82: the server closed the stream and the loop is exhausted *)
StreamEnds ==
    /\ pc = "loop"
    /\ now - idle_since < TIMEOUT
    /\ LET elapsed == now - start_time
       IN  success' = ClosedResult(elapsed, event_count)
    /\ pc' = "returned"
    /\ outcome' = "CLOSED"
    /\ cause' = "eof"
    /\ response_open' = FALSE
    /\ UNCHANGED <<now, idle_since, ticks, get_count, status_code, content_type,
                   warned, start_time, event_count, last_event_time, delivered,
                   printed, exc, raised_at, exit_code>>

(* an exception e raised at the current place is caught by lines 84-97.    *)
(* No handler closes the response: after a transport error the library has *)
(* dropped the connection, otherwise the response is left as it was and    *)
(* whether the runtime has finalised it by the return is not determined.   *)
Raise(e, why) ==
    /\ exc' = e
    /\ cause' = why
    /\ raised_at' = pc
    /\ pc' = "returned"
    /\ outcome' = Handler(e).outcome
    /\ success' = Handler(e).success
    /\ IF response_open /\ e \notin TransportErrors
       THEN response_open' \in BOOLEAN
       ELSE response_open' = FALSE
    /\ UNCHANGED <<now, idle_since, ticks, get_count, status_code, content_type,
                   warned, start_time, event_count, last_event_time, delivered,
                   printed, exit_code>>

(* timeout=60 (line 28) expires while the probe is blocked *)
TimeoutFires ==
    /\ pc \in Blocking
    /\ now - idle_since >= TIMEOUT
    /\ \E e \in RaisedOnTimeout(pc) : Raise(e, "timeout")

(* DNS failure, refused or reset connection, broken framing, other errors *)
RequestFails ==
    /\ pc \in Blocking
    /\ \E e \in RaisedOnFailure(pc) : Raise(e, "failure")

(* Ctrl+C while the probe is inside the try block *)
Interrupt ==
    /\ pc \in Blocking
    /\ Raise("KeyboardInterrupt", "interrupt")

(* main, lines 116-125 *)
Exit ==
    /\ pc = "returned"
    /\ pc' = "exited"
    /\ exit_code' = ExitCode(success)
    /\ UNCHANGED <<now, idle_since, ticks, get_count, status_code, content_type,
                   warned, response_open, start_time, event_count, last_event_time,
                   delivered, printed, exc, raised_at, cause, outcome, success>>

Next ==
    \/ IssueGet
    \/ Tick
    \/ GetReturns
    \/ RejectReturns
    \/ ReadLine
    \/ StreamEnds
    \/ TimeoutFires
    \/ RequestFails
    \/ Interrupt
    \/ Exit

Spec == Init /\ [][Next]_vars

(* ---------------- properties ---------------- *)
Ended == pc \in {"returned", "exited"}
Elapsed == now - start_time
Events == {i \in DOMAIN delivered : delivered[i].line # ""}
LineOf(r) == r.line
LinesOf(seq) == [i \in DOMAIN seq |-> LineOf(seq[i])]
NonEmpty(l) == l # ""

(* C1: a server that answers 200, sends no line at all and holds the       *)
(* connection open is reported as a failure by the no-events abort (exit   *)
(* code 1), no line having to arrive: a run that ended with no line        *)
(* delivered, not by a server close, a failure or an interrupt, ended in   *)
(* the no-events abort.                                                    *)
C1_SilentHoldAborts ==
    (pc = "exited" /\ status_code = 200 /\ delivered = <<>>
        /\ cause \notin {"eof", "failure", "interrupt"})
    => (outcome = "NO_EVENTS" /\ exit_code = 1)

(* C2: a transport timeout reached before the stream ended is mapped to    *)
(* success (TIMED_OUT, exit code 0), during the request and during the     *)
(* line loop alike.                                                        *)
C2_TimeoutIsSuccess ==
    (pc = "exited" /\ cause = "timeout")
    => (outcome = "TIMED_OUT" /\ success /\ exit_code = 0)

(* C3: status 200, content type text/event-stream, a non-blank line within *)
(* 5 seconds of the start and a connection open past 1 second give success *)
(* and exit code 0 when the run ends by server close, timeout or interrupt *)
(* (the ends the claim lists, less the connection reset that lines 87-89   *)
(* report as a failure).                                                   *)
C3_EventThenOpenIsSuccess ==
    (pc = "exited" /\ status_code = 200 /\ content_type = "text/event-stream"
        /\ (\E i \in Events : delivered[i].at - start_time <= GRACE)
        /\ Elapsed > QUICK_CLOSE
        /\ cause \in {"eof", "timeout", "interrupt"})
    => (success /\ exit_code = 0)

(* C4: when the line loop is exhausted, an elapsed time under 1 second is  *)
(* a failure even with events; otherwise the result is success exactly     *)
(* when event_count >= 1; the exit code follows.                           *)
C4_ClosureRule ==
    (Ended /\ cause = "eof")
    => /\ outcome = "CLOSED"
       /\ (Elapsed < 1 => ~success)
       /\ (Elapsed >= 1 => (success <=> event_count >= 1))
       /\ (pc = "exited" => exit_code = (IF success THEN 0 ELSE 1))

C4_QuickCloseWithEvents ==
    pc = "exited" /\ cause = "eof" /\ Elapsed < 1 /\ event_count >= 1 /\ exit_code = 1

(* C5 as claimed: a status other than 200 always ends in failure and exit  *)
(* code 1, and no line is ever read.                                       *)
C5_Non200AlwaysFails ==
    (pc = "exited" /\ status_code \notin {200, NoCode})
    => (~success /\ exit_code = 1 /\ delivered = <<>> /\ event_count = 0)

(* C5 amended: with a status other than 200 the line loop is never entered *)
(* (no line read, counted or printed), and the run ends in failure and     *)
(* exit code 1 unless it is interrupted while the rejection is reported,   *)
(* in which case it ends in success and exit code 0.                       *)
C5_Non200FailsUnlessInterrupted ==
    (status_code \notin {200, NoCode})
    => /\ pc # "loop"
       /\ delivered = <<>> /\ printed = <<>> /\ event_count = 0
       /\ start_time = NoTime
       /\ (Ended /\ cause # "interrupt" => ~success)
       /\ (Ended /\ cause = "rejected" => outcome = "REJECTED")
       /\ (Ended /\ cause = "interrupt" => success)
       /\ (pc = "exited" => exit_code = (IF cause = "interrupt" THEN 0 ELSE 1))

C5_RejectedExit ==
    pc = "exited" /\ status_code = 404 /\ outcome = "REJECTED" /\ exit_code = 1

(* C6: an interrupt that arrives inside the line loop ends the run in      *)
(* INTERRUPTED with success and exit code 0.                               *)
C6_InterruptWhileStreaming ==
    (Ended /\ cause = "interrupt" /\ raised_at = "loop")
    => /\ outcome = "INTERRUPTED"
       /\ success
       /\ (pc = "exited" => exit_code = 0)

C6_InterruptedAfterEvent ==
    /\ pc = "exited" /\ cause = "interrupt" /\ raised_at = "loop"
    /\ event_count >= 1 /\ exit_code = 0

(* C7: once acquired, the response stream is released by the probe on      *)
(* every exit path: no run has ended with it still open.                   *)
C7_ReleasedOnEveryPath ==
    Ended => ~response_open

(* C8: a run that ended has one terminal outcome, which fixes the result:  *)
(* REJECTED, connection error, unexpected error and the no-events abort    *)
(* fail, TIMED_OUT and INTERRUPTED succeed, CLOSED follows the closure     *)
(* rule; the exit code is 0 exactly on success and 1 exactly on failure;   *)
(* at most one GET is issued.                                              *)
C8_OutcomeMapping ==
    /\ get_count <= 1
    /\ (~Ended => outcome = "none" /\ exit_code = NoCode)
    /\ Ended =>
         /\ outcome \in {"REJECTED", "NO_EVENTS", "CLOSED", "TIMED_OUT",
                         "CONN_ERROR", "INTERRUPTED", "UNEXPECTED"}
         /\ (outcome \in {"REJECTED", "NO_EVENTS", "CONN_ERROR", "UNEXPECTED"} => ~success)
         /\ (outcome \in {"TIMED_OUT", "INTERRUPTED"} => success)
         /\ (outcome = "CLOSED" => (success <=> (Elapsed >= 1 /\ event_count >= 1)))
         /\ (outcome = "TIMED_OUT" <=> exc \in {"ConnectTimeout", "ReadTimeout"})
         /\ (outcome = "CONN_ERROR" <=> exc = "ConnectionError")
         /\ (outcome = "INTERRUPTED" <=> exc = "KeyboardInterrupt")
         /\ (outcome = "UNEXPECTED" <=> exc \in {"ChunkedEncodingError", "Exception"})
         /\ (outcome \in {"REJECTED", "NO_EVENTS", "CLOSED"} <=> exc = "none")
    /\ (pc = "returned" => exit_code = NoCode)
    /\ (pc = "exited" => /\ exit_code \in {0, 1}
                         /\ (exit_code = 0 <=> success)
                         /\ (exit_code = 1 <=> ~success))

C8_ConnectTimeoutExit ==
    pc = "exited" /\ exc = "ConnectTimeout" /\ outcome = "TIMED_OUT" /\ exit_code = 0

(* C9: in the line loop event_count is the number of non-empty lines       *)
(* processed, the printed lines are the non-empty delivered lines in       *)
(* delivery order, start_time <= last_event_time <= now, a blank line      *)
(* leaves event_count and last_event_time unchanged and event_count never  *)
(* decreases.                                                              *)
C9_LoopState ==
    (start_time # NoTime) =>
        /\ event_count = Cardinality(Events)
        /\ LinesOf(printed) = SelectSeq(LinesOf(delivered), NonEmpty)
        /\ start_time <= last_event_time
        /\ last_event_time <= now
        /\ (event_count > 0 => last_event_time = delivered[CHOOSE i \in Events :
                                   \A j \in Events : j <= i].at)
        /\ (event_count = 0 => last_event_time = start_time)

C9_LoopStep ==
    /\ event_count' >= event_count
    /\ (Len(delivered') = Len(delivered) + 1 /\ delivered'[Len(delivered')].line = "")
         => (event_count' = event_count /\ last_event_time' = last_event_time)

(* C9: the loop state invariant holds in every state and every step      *)
(* keeps event_count from decreasing and blank lines from being counted.   *)
C9_EventCounting == []C9_LoopState /\ [][C9_LoopStep]_vars

C9_BlankThenEvent ==
    /\ Len(delivered) = 2 /\ delivered[1].line = "" /\ delivered[2].line # ""
    /\ event_count = 1 /\ last_event_time > start_time

(* C10: an interrupt is mapped to success outside the line loop too: while *)
(* the GET is pending (no response, no event) and while a non-200 response *)
(* is being reported, the run ends in success and exit code 0.             *)
C10_InterruptBeforeStreaming ==
    (Ended /\ cause = "interrupt" /\ raised_at \in {"get", "reject"})
    => /\ outcome = "INTERRUPTED"
       /\ success
       /\ event_count = 0 /\ delivered = <<>>
       /\ (raised_at = "get" => status_code = NoCode /\ ~response_open)
       /\ (raised_at = "reject" => status_code # 200)
       /\ (pc = "exited" => exit_code = 0)

C10_InterruptedWhilePending ==
    /\ pc = "exited" /\ cause = "interrupt" /\ raised_at = "get"
    /\ status_code = NoCode /\ exit_code = 0

====
